---- MODULE Spec2Model ----
(***************************************************************************)
(* A model of PySim/QuantumSystems.py: the Hilbert-space expansion engine  *)
(* (expand_hilbert_space), the subsystem operator accessors (SNO,          *)
(* SCQubit), the pairwise Interaction builder and the Hamiltonian /        *)
(* Dissipator wrappers.                                                    *)
(*                                                                         *)
(* Arrays are 0-based, as in the source: a vector is a function on 0..n-1, *)
(* a matrix a function on 0..n-1 of rows.  Index arrays hold integers.     *)
(***************************************************************************)
EXTENDS Integers, Sequences, FiniteSets, TLC

\* Largest number of subsystems of a composite system.
MaxN == 3
\* Largest dimension of one subsystem.
MaxDim == 3
\* Largest dimension of the full (joint) space.
MaxFull == 12
\* Largest number of levels of an SCQubit.
MaxLevels == 3
\* Most reads of an Interaction's matrix between two assignments of its strength.
MaxReads == 2
\* Most operations on the Hamiltonians and the Dissipator of one run.
MaxOps == 2

\* No exception, no operator kind.
None == "None"

\* A name that is bound to no array (yet).
NoArray == << >>

VARIABLES
    pc,                 \* where the call is: "idle", "loop", "done", "raised"
    opKind,             \* how the caller built the operator: "generic" or "kron"
    operator,           \* argument: the operator on the acting subsystems
    operatorSubSystems, \* argument: the acting indices, in the caller's order
    eyeSubSystems,      \* argument: the passive indices
    dimensions,         \* argument: the dimension of every subsystem
    tmpMat,             \* kron(operator, eye(dimEye)), "the full matrix in the wrong order"
    curIndices,         \* the tracked ordering
    totP,               \* the total permutation matrix
    ct,                 \* the for loop's variable
    swap,               \* <<the locals of the last pass through the while body>>, << >> before it
    result,             \* the returned matrix
    err                 \* the exception that ended the call

\* The subsystems and their interaction (SNO, SCQubit, Interaction).
VARIABLES
    Q1,                 \* an SCQubit: [dim]
    Q2,                 \* an SCQubit: [dim]
    inter,              \* <<the Interaction object>>, << >> before one is constructed
    sysRet,             \* what the last operation returned: [name, system, value]
    sysErr,             \* the exception the last operation raised
    sysOp,              \* history: the last operation
    builtStrength,      \* history: interactionStrength as createMat last read it
    reads               \* history: reads of the matrix since interactionStrength was last assigned

sysVars == <<Q1, Q2, inter, sysRet, sysErr, sysOp, builtStrength, reads>>

expVars == <<pc, opKind, operator, operatorSubSystems, eyeSubSystems, dimensions,
             tmpMat, curIndices, totP, ct, swap, result, err>>

\* The arrays and the Hamiltonian and Dissipator objects of a script.
VARIABLES
    heap,               \* the arrays: address -> [dtype, nd, a]
    hams,               \* the Hamiltonians by the name bound to them: name -> <<object>>
    diss,               \* <<the Dissipator>>
    objOp,              \* history: the last operation and what it raised
    objRet,             \* what the last superOpColStack returned
    nops                \* history: operations so far

objVars == <<heap, hams, diss, objOp, objRet, nops>>

vars == <<expVars, sysVars, objVars>>

-----------------------------------------------------------------------------
(* Dense integer arrays: the part of numpy the module uses.                *)

\* len(v) of a 0-based array.
Size(v) == Cardinality(DOMAIN v)

\* A 0-based array from a TLA+ sequence.
Arr(s) == [i \in 0..(Len(s) - 1) |-> s[i + 1]]

\* np.hstack((a, b))
hstack(a, b) ==
    [i \in 0..(Size(a) + Size(b) - 1) |-> IF i < Size(a) THEN a[i] ELSE b[i - Size(a)]]

\* a[lo:hi], the slice of the positions lo..hi-1 (clipped as Python clips them).
Slice(a, lo, hi) ==
    LET l == IF lo < 0 THEN 0 ELSE lo
        h == IF hi > Size(a) THEN Size(a) ELSE hi
    IN  [i \in 0..(h - l - 1) |-> a[l + i]]

\* Whether a[i] is a legal numpy index of an array of n elements (negative
\* indices count from the end).
InRange(i, n) == i >= -n /\ i < n

\* a[i] with numpy's wrap-around of negative indices.
At(a, i) == IF i < 0 THEN a[i + Size(a)] ELSE a[i]

RECURSIVE ProdTo(_, _)
ProdTo(v, k) == IF k < 0 THEN 1 ELSE v[k] * ProdTo(v, k - 1)

\* np.prod(v)
prod(v) == ProdTo(v, Size(v) - 1)

\* np.zeros((n, n))
zeros(n) == [r \in 0..(n - 1) |-> [c \in 0..(n - 1) |-> 0]]

\* np.eye(n)
eye(n) == [r \in 0..(n - 1) |-> [c \in 0..(n - 1) |-> IF r = c THEN 1 ELSE 0]]

\* M.transpose() of a square matrix.
transpose(M) == [r \in DOMAIN M |-> [c \in DOMAIN M |-> M[c][r]]]

RECURSIVE DotEntry(_, _, _, _, _)
DotEntry(A, B, r, c, k) ==
    IF k < 0 THEN 0 ELSE A[r][k] * B[k][c] + DotEntry(A, B, r, c, k - 1)

\* np.dot(A, B) of two square matrices of the same dimension.
dot(A, B) ==
    [r \in DOMAIN A |-> [c \in DOMAIN A |-> DotEntry(A, B, r, c, Size(A) - 1)]]

\* np.kron(A, B) of two square matrices.
kron(A, B) ==
    LET n == Size(A)
        m == Size(B)
    IN  [r \in 0..(n * m - 1) |->
            [c \in 0..(n * m - 1) |-> A[r \div m][c \div m] * B[r % m][c % m]]]

-----------------------------------------------------------------------------
(* expand_hilbert_space: the Hilbert-space expansion engine.               *)

\* a[idx] for an index array idx (numpy fancy indexing).
Take(a, idx) == [i \in DOMAIN idx |-> At(a, idx[i])]

\* Whether a[idx] raises no IndexError.
TakeOK(a, idx) == \A i \in DOMAIN idx : InRange(idx[i], Size(a))

\* calc_perm_mat with the column computed with the stride of the row.
calc_perm_mat_RowStride(dim1, dim2) ==
    LET totDim == dim1 * dim2
    IN  [r \in 0..(totDim - 1) |->
            [c \in 0..(totDim - 1) |->
                IF \E ct1 \in 0..(dim1 - 1), ct2 \in 0..(dim2 - 1) :
                       r = ct1 * dim2 + ct2 /\ c = ct2 * dim2 + ct1
                THEN 1 ELSE 0]]

\* The helper that creates the permutation matrix swapping two systems.
calc_perm_mat(dim1, dim2) ==
    LET totDim == dim1 * dim2
    IN  [r \in 0..(totDim - 1) |->
            [c \in 0..(totDim - 1) |->
                IF \E ct1 \in 0..(dim1 - 1), ct2 \in 0..(dim2 - 1) :
                       r = ct1 * dim2 + ct2 /\ c = ct2 * dim1 + ct1
                THEN 1 ELSE 0]]

\* np.nonzero(curIndices == ct)[0]: the positions that hold ct.
Positions(cur, k) == {i \in DOMAIN cur : cur[i] = k}

\* np.nonzero(curIndices == ct)[0][0]
CurInd(cur, k) == CHOOSE i \in Positions(cur, k) : \A j \in Positions(cur, k) : i <= j

\* The first argument of the call of calc_perm_mat in the while body.
SwapDim1(cur, dims, curInd) == At(dims, curInd)

\* The second argument of the call of calc_perm_mat in the while body.
SwapDim2(cur, dims, curInd) == At(dims, curInd - 1)

\* preDim: "the identity dimensions before"
PreDim(cur, dims, curInd) ==
    IF curInd > 1 THEN prod(Take(dims, Slice(cur, 0, curInd - 1))) ELSE 1

\* postDim: "the identity dimensions after"
PostDim(cur, dims, curInd) ==
    IF curInd < Size(dims) - 1
    THEN prod(Take(dims, Slice(cur, curInd + 1, Size(cur)))) ELSE 1

\* np.kron(np.kron(np.eye(preDim), tmpP), np.eye(postDim))
Padded(pre, P, post) == kron(kron(eye(pre), P), eye(post))

\* curIndices[[curInd-1,curInd]] = curIndices[[curInd, curInd-1]]
SwapIndices(cur, curInd) ==
    LET lo == IF curInd - 1 < 0 THEN curInd - 1 + Size(cur) ELSE curInd - 1
    IN  [i \in DOMAIN cur |->
            IF i = curInd THEN cur[lo] ELSE IF i = lo THEN cur[curInd] ELSE cur[i]]

\* The exception one pass through the while body raises, None when it raises none.
SwapErr(cur, P, dims, k) ==
    IF Positions(cur, k) = {} THEN "IndexError"
    ELSE LET curInd == CurInd(cur, k)
         IN  IF ~ InRange(curInd, Size(dims)) \/ ~ InRange(curInd - 1, Size(dims))
             THEN "IndexError"
             ELSE IF curInd > 1 /\ ~ TakeOK(dims, Slice(cur, 0, curInd - 1))
             THEN "IndexError"
             ELSE IF curInd < Size(dims) - 1
                     /\ ~ TakeOK(dims, Slice(cur, curInd + 1, Size(cur)))
             THEN "IndexError"
             ELSE IF PreDim(cur, dims, curInd) * SwapDim1(cur, dims, curInd)
                       * SwapDim2(cur, dims, curInd) * PostDim(cur, dims, curInd)
                     # Size(P)
             THEN "ValueError"
             ELSE None

\* The locals of one pass through the while body that raises nothing.
SwapLocals(cur, P, dims, k) ==
    LET curInd == CurInd(cur, k)
        dim1 == SwapDim1(cur, dims, curInd)
        dim2 == SwapDim2(cur, dims, curInd)
        tmpP == calc_perm_mat(dim1, dim2)
        preDim == PreDim(cur, dims, curInd)
        postDim == PostDim(cur, dims, curInd)
    IN  [curInd |-> curInd, dim1 |-> dim1, dim2 |-> dim2, tmpP |-> tmpP,
         preDim |-> preDim, postDim |-> postDim,
         padded |-> Padded(preDim, tmpP, postDim),
         left |-> cur[curInd - 1], right |-> cur[curInd]]

\* The whole swap loop, from position k on: the exception it raises, or the
\* total permutation and the ordering it ends with.
RECURSIVE SwapLoop(_, _, _, _)
SwapLoop(cur, P, dims, k) ==
    IF k >= Size(cur) THEN [err |-> None, totP |-> P, curIndices |-> cur]
    ELSE IF k < cur[k]
    THEN IF SwapErr(cur, P, dims, k) # None
         THEN [err |-> SwapErr(cur, P, dims, k), totP |-> NoArray, curIndices |-> NoArray]
         ELSE LET loc == SwapLocals(cur, P, dims, k)
              IN  SwapLoop(SwapIndices(cur, loc.curInd), dot(loc.padded, P), dims, k)
    ELSE SwapLoop(cur, P, dims, k + 1)

\* dimEye
DimEye(eyeSS, dims) == IF Size(eyeSS) > 0 THEN prod(Take(dims, eyeSS)) ELSE 1

\* np.dot(np.dot(totP, tmpMat), totP.transpose())
ApplyPerm(P, M) == dot(dot(P, M), transpose(P))

\* The function as a whole: the exception it raises, or the matrix it returns.
expand_hilbert_space(op, opSS, eyeSS, dims) ==
    IF Size(eyeSS) > 0 /\ ~ TakeOK(dims, eyeSS)
    THEN [err |-> "IndexError", matrix |-> NoArray]
    ELSE LET M == kron(op, eye(DimEye(eyeSS, dims)))
             loop == SwapLoop(hstack(opSS, eyeSS), eye(Size(M)), dims, 0)
         IN  IF loop.err # None
             THEN [err |-> loop.err, matrix |-> NoArray]
             ELSE [err |-> None, matrix |-> ApplyPerm(loop.totP, M)]

(* The callers: what they pass to expand_hilbert_space.                     *)

\* The dimension vectors of the composite systems.
DimVectors ==
    {d \in {Arr(s) : s \in UNION {[1..n -> 1..MaxDim] : n \in 1..MaxN}} :
        prod(d) <= MaxFull}

\* The index lists a caller may pass for n subsystems, acting indices followed
\* by passive indices: every ordering of 0..n-1, and the malformed lists (an
\* index missing, duplicated, or out of range).
IndexLists(n) == {Arr(s) : s \in UNION {[1..k -> 0..n] : k \in 1..n}}

\* The orderings of 0..n-1.
Orderings(n) ==
    {l \in [0..(n - 1) -> 0..(n - 1)] : \A i, j \in 0..(n - 1) : l[i] = l[j] => i = j}

\* Whether acting followed by passive holds each of 0..n-1 exactly once.
IsPartition(opSS, eyeSS, n) ==
    LET all == hstack(opSS, eyeSS)
    IN  /\ Size(all) = n
        /\ \A k \in 0..(n - 1) : Cardinality(Positions(all, k)) = 1

\* The dimension of the operator a caller passes for the acting indices.
OperatorDim(opSS, dims) ==
    prod([i \in DOMAIN opSS |-> IF InRange(opSS[i], Size(dims)) THEN dims[opSS[i]] ELSE 1])

\* An operator of dimension n whose entries are pairwise different and not 0.
GenericOp(n, base) == [r \in 0..(n - 1) |-> [c \in 0..(n - 1) |-> base + r * n + c]]

\* The operator on one subsystem of dimension d that a caller tensors with another.
LocalOp(d, which) == GenericOp(d, IF which = "A" THEN 1 ELSE 11)

\* The operator passed: any matrix on the acting subsystems ("generic"), or
\* the Kronecker product of an operator on the first acting subsystem and one
\* on the second ("kron").
CallOperator(kind, opSS, dims) ==
    IF kind = "kron"
    THEN kron(LocalOp(dims[opSS[0]], "A"), LocalOp(dims[opSS[1]], "B"))
    ELSE GenericOp(OperatorDim(opSS, dims), 1)

ExpInit ==
    /\ pc = "idle"
    /\ opKind = None /\ operator = NoArray /\ operatorSubSystems = NoArray
    /\ eyeSubSystems = NoArray /\ dimensions = NoArray
    /\ tmpMat = NoArray /\ curIndices = NoArray /\ totP = NoArray /\ ct = 0
    /\ swap = << >> /\ result = NoArray /\ err = None

\* The call, up to the first test of the for loop, with the index lists drawn
\* from lists[n] for a system of n subsystems.
CallFrom(lists) ==
    /\ pc = "idle"
    /\ \E dims \in DimVectors, kind \in {"generic", "kron"} :
       \E all \in lists[Size(dims)] :
       \E a \in 1..Size(all) :
        /\ LET opSS == Slice(all, 0, a)
               eyeSS == Slice(all, a, Size(all))
           IN  /\ kind = "kron" => a = 2 /\ IsPartition(opSS, eyeSS, Size(dims))
               /\ opKind' = kind
               /\ operator' = CallOperator(kind, opSS, dims)
               /\ operatorSubSystems' = opSS
               /\ eyeSubSystems' = eyeSS
               /\ dimensions' = dims
               /\ IF Size(eyeSS) > 0 /\ ~ TakeOK(dims, eyeSS)
                  THEN /\ pc' = "raised"
                       /\ err' = "IndexError"
                       /\ UNCHANGED <<tmpMat, curIndices, totP, ct>>
                  ELSE /\ pc' = "loop"
                       /\ err' = None
                       /\ tmpMat' = kron(operator', eye(DimEye(eyeSS, dims)))
                       /\ curIndices' = hstack(opSS, eyeSS)
                       /\ totP' = eye(Size(tmpMat'))
                       /\ ct' = 0
    /\ UNCHANGED <<swap, result>>
    /\ UNCHANGED <<sysVars, objVars>>

\* A call whose acting and passive indices split 0..N-1.
Call == CallFrom([n \in 1..MaxN |-> Orderings(n)])

\* A call with any index lists, malformed ones included.
CallAny == CallFrom([n \in 1..MaxN |-> IndexLists(n)])

\* One pass through the body of the while loop.
SwapStep ==
    /\ pc = "loop"
    /\ ct < Size(curIndices)
    /\ ct < curIndices[ct]
    /\ IF SwapErr(curIndices, totP, dimensions, ct) # None
       THEN /\ pc' = "raised"
            /\ err' = SwapErr(curIndices, totP, dimensions, ct)
            /\ UNCHANGED <<curIndices, totP, swap>>
       ELSE /\ swap' = <<SwapLocals(curIndices, totP, dimensions, ct)>>
            /\ totP' = dot(swap'[1].padded, totP)
            /\ curIndices' = SwapIndices(curIndices, swap'[1].curInd)
            /\ UNCHANGED <<pc, err>>
    /\ UNCHANGED <<opKind, operator, operatorSubSystems, eyeSubSystems, dimensions,
                   tmpMat, ct, result>>
    /\ UNCHANGED <<sysVars, objVars>>

\* The while test fails: the for loop moves to the next position.
NextPosition ==
    /\ pc = "loop"
    /\ ct < Size(curIndices)
    /\ ~ (ct < curIndices[ct])
    /\ ct' = ct + 1
    /\ UNCHANGED <<pc, opKind, operator, operatorSubSystems, eyeSubSystems, dimensions,
                   tmpMat, curIndices, totP, swap, result, err>>
    /\ UNCHANGED <<sysVars, objVars>>

\* The for loop is over: apply the permutation and return.
Return ==
    /\ pc = "loop"
    /\ ct = Size(curIndices)
    /\ result' = ApplyPerm(totP, tmpMat)
    /\ pc' = "done"
    /\ UNCHANGED <<opKind, operator, operatorSubSystems, eyeSubSystems, dimensions,
                   tmpMat, curIndices, totP, ct, swap, err>>
    /\ UNCHANGED <<sysVars, objVars>>


-----------------------------------------------------------------------------
(* Real numbers of the form c1*sqrt(r1) + ... + cn*sqrt(rn), the ri square- *)
(* free and the ci integers: a function from the radicands with a nonzero   *)
(* coefficient to their coefficients.  These are the numbers the ladder     *)
(* operators and the interaction matrices hold.                             *)

\* 0
SZero == << >>

\* The integer i.
SInt(i) == IF i = 0 THEN SZero ELSE [r \in {1} |-> i]

\* The coefficient of sqrt(r) in x.
SCoef(x, r) == IF r \in DOMAIN x THEN x[r] ELSE 0

\* x + y
SAdd(x, y) ==
    [r \in {q \in DOMAIN x \cup DOMAIN y : SCoef(x, q) + SCoef(y, q) # 0} |->
        SCoef(x, r) + SCoef(y, r)]

\* The largest s with s*s a divisor of n.
SquarePart(n) ==
    CHOOSE s \in 1..n : n % (s * s) = 0 /\ \A t \in (s + 1)..n : n % (t * t) # 0

\* np.sqrt(k) of an integer k >= 1.
Sqrt(k) == [r \in {k \div (SquarePart(k) * SquarePart(k))} |-> SquarePart(k)]

RECURSIVE SumTerms(_, _, _, _)
\* The coefficient of sqrt(r) in the sum of x[a]*sqrt(a)*y[b]*sqrt(b) over the pairs in T.
SumTerms(x, y, T, r) ==
    IF T = {} THEN 0
    ELSE LET t == CHOOSE u \in T : TRUE
             g == SquarePart(t[1] * t[2])
         IN  (IF (t[1] * t[2]) \div (g * g) = r THEN x[t[1]] * y[t[2]] * g ELSE 0)
             + SumTerms(x, y, T \ {t}, r)

\* x * y
SMul(x, y) ==
    LET T == (DOMAIN x) \X (DOMAIN y)
        R == {(t[1] * t[2]) \div (SquarePart(t[1] * t[2]) * SquarePart(t[1] * t[2])) : t \in T}
    IN  [r \in {q \in R : SumTerms(x, y, T, q) # 0} |-> SumTerms(x, y, T, r)]

\* np.kron(A, B) of two square matrices of such numbers.
kronS(A, B) ==
    LET n == Size(A)
        m == Size(B)
    IN  [r \in 0..(n * m - 1) |->
            [c \in 0..(n * m - 1) |-> SMul(A[r \div m][c \div m], B[r % m][c % m])]]

\* A + B of two square matrices of the same dimension.
addS(A, B) == [r \in DOMAIN A |-> [c \in DOMAIN A |-> SAdd(A[r][c], B[r][c])]]

\* x * A, the scalar x times the matrix A.
scaleS(x, A) == [r \in DOMAIN A |-> [c \in DOMAIN A |-> SMul(x, A[r][c])]]

\* np.arange(lo, hi)
arange(lo, hi) == [i \in 0..(hi - lo - 1) |-> lo + i]

\* np.diag(v, k): the matrix with the vector v on its k-th diagonal (k > 0
\* above the main diagonal, k < 0 below it) and 0 elsewhere.
diag(v, k) ==
    LET n == Size(v) + (IF k < 0 THEN -k ELSE k)
    IN  [r \in 0..(n - 1) |->
            [c \in 0..(n - 1) |->
                IF c - r = k THEN v[IF k >= 0 THEN r ELSE c] ELSE SZero]]

-----------------------------------------------------------------------------
(* SNO / SCQubit: the operator accessors.                                  *)

\* SNO.loweringOp with the vector put below the main diagonal.
loweringOp_Below(q) == diag([i \in 0..(q.dim - 2) |-> Sqrt(arange(1, q.dim)[i])], -1)

\* SNO.raisingOp
raisingOp(q) == diag([i \in 0..(q.dim - 2) |-> Sqrt(arange(1, q.dim)[i])], -1)

\* SNO.loweringOp
loweringOp(q) == diag([i \in 0..(q.dim - 2) |-> Sqrt(arange(1, q.dim)[i])], 1)

\* QuantumSystem.zeros
zerosS(q) == [r \in 0..(q.dim - 1) |-> [c \in 0..(q.dim - 1) |-> SZero]]

\* SCQubit.pauliZ, for a qubit that passes its assertion.
pauliZ(q) ==
    [r \in 0..(q.dim - 1) |->
        [c \in 0..(q.dim - 1) |->
            IF r = 0 /\ c = 0 THEN SInt(1)
            ELSE IF r = 1 /\ c = 1 THEN SInt(-1)
            ELSE zerosS(q)[r][c]]]

\* The exception an accessor raises, None when it raises none.
AccessorErr(q, name) == IF name = "pauliZ" /\ ~ (q.dim > 1) THEN "AssertionError" ELSE None

\* The value of an accessor that raises nothing.
Accessor(q, name) ==
    IF name = "raisingOp" THEN raisingOp(q)
    ELSE IF name = "loweringOp" THEN loweringOp(q)
    ELSE pauliZ(q)

-----------------------------------------------------------------------------
(* Interaction.                                                            *)

\* The interaction strengths the callers assign: multiples of 4, so that
\* 0.25*interactionStrength is an integer.
Strengths == {-8, 4, 8}

\* The interaction types the callers pass; "XX" is one createMat does not know.
InteractionTypes == {"ZZ", "FlipFlop", "XX"}

\* 0.25 * x, for x a multiple of 4.
Quarter(x) == x \div 4

\* The object a name of the script is bound to.
Sys(name) == IF name = "Q1" THEN Q1 ELSE Q2

\* The exception createMat raises on the object, None when it raises none.
createMatErr(obj) ==
    IF obj.interactionType = "ZZ"
    THEN IF AccessorErr(Sys(obj.system1), "pauliZ") # None
            \/ AccessorErr(Sys(obj.system2), "pauliZ") # None
         THEN "AssertionError" ELSE None
    ELSE IF obj.interactionType = "FlipFlop" THEN None
    ELSE "NameError"

\* The object after a createMat that raises nothing.
createMat(obj) ==
    IF obj.interactionType = "ZZ"
    THEN [obj EXCEPT !.matrix =
             scaleS(SInt(Quarter(obj.interactionStrength)),
                    kronS(pauliZ(Sys(obj.system1)), pauliZ(Sys(obj.system2))))]
    ELSE [obj EXCEPT !.matrix =
             scaleS(SInt(obj.interactionStrength),
                    addS(kronS(loweringOp(Sys(obj.system1)), raisingOp(Sys(obj.system2))),
                         kronS(raisingOp(Sys(obj.system1)), loweringOp(Sys(obj.system2)))))]

\* Interaction.__init__, up to the call of createMat.
InteractionFields(s1, s2, type, strength) ==
    [system1 |-> s1, system2 |-> s2, interactionType |-> type,
     interactionStrength |-> strength, matrix |-> NoArray]

\* The assignment that also recomputes the matrix.
SetStrength_Sync(obj, v) == createMat([obj EXCEPT !.interactionStrength = v])

\* interaction.interactionStrength = v
SetStrength(obj, v) == [obj EXCEPT !.interactionStrength = v]

\* No subsystem and no interaction exists.
SysNone ==
    /\ Q1 = << >> /\ Q2 = << >> /\ inter = << >>
    /\ sysRet = << >> /\ sysErr = None /\ sysOp = None
    /\ builtStrength = 0 /\ reads = 0

\* The script has constructed its two qubits.
SysInit ==
    /\ Q1 \in [dim : 1..MaxLevels]
    /\ Q2 \in [dim : 1..MaxLevels]
    /\ inter = << >>
    /\ sysRet = << >> /\ sysErr = None /\ sysOp = None
    /\ builtStrength = 0 /\ reads = 0

\* Interaction(system1, system2, interactionType, interactionStrength)
NewInteraction ==
    /\ \E type \in InteractionTypes, strength \in Strengths :
        LET obj == InteractionFields("Q1", "Q2", type, strength)
        IN  IF createMatErr(obj) # None
            THEN /\ sysErr' = createMatErr(obj)
                 /\ UNCHANGED <<inter, builtStrength, reads>>
            ELSE /\ inter' = <<createMat(obj)>>
                 /\ builtStrength' = strength
                 /\ reads' = 0
                 /\ sysErr' = None
    /\ sysOp' = "Interaction"
    /\ sysRet' = << >>
    /\ UNCHANGED <<Q1, Q2>>
    /\ UNCHANGED <<expVars, objVars>>

\* interaction.interactionStrength = v, for a new value v
AssignStrength ==
    /\ inter # << >>
    /\ \E v \in Strengths \ {inter[1].interactionStrength} :
        inter' = <<SetStrength(inter[1], v)>>
    /\ reads' = 0
    /\ sysOp' = "setStrength"
    /\ sysErr' = None
    /\ sysRet' = << >>
    /\ UNCHANGED <<Q1, Q2, builtStrength>>
    /\ UNCHANGED <<expVars, objVars>>

\* interaction.createMat()
CreateMat ==
    /\ inter # << >>
    /\ inter' = <<createMat(inter[1])>>
    /\ builtStrength' = inter[1].interactionStrength
    /\ sysOp' = "createMat"
    /\ sysErr' = None
    /\ sysRet' = << >>
    /\ UNCHANGED <<Q1, Q2, reads>>
    /\ UNCHANGED <<expVars, objVars>>

\* A read of interaction.matrix
ReadMatrix ==
    /\ inter # << >>
    /\ reads < MaxReads
    /\ reads' = reads + 1
    /\ sysRet' = <<[name |-> "matrix", system |-> None, value |-> inter[1].matrix]>>
    /\ sysOp' = "readMatrix"
    /\ sysErr' = None
    /\ UNCHANGED <<Q1, Q2, inter, builtStrength>>
    /\ UNCHANGED <<expVars, objVars>>

\* A read of an operator accessor of a qubit
GetOperator ==
    /\ \E q \in {"Q1", "Q2"}, name \in {"raisingOp", "loweringOp", "pauliZ"} :
        IF AccessorErr(Sys(q), name) # None
        THEN /\ sysErr' = AccessorErr(Sys(q), name)
             /\ sysRet' = << >>
        ELSE /\ sysErr' = None
             /\ sysRet' = <<[name |-> name, system |-> q, value |-> Accessor(Sys(q), name)]>>
    /\ sysOp' = "getOperator"
    /\ UNCHANGED <<Q1, Q2, inter, builtStrength, reads>>
    /\ UNCHANGED <<expVars, objVars>>

-----------------------------------------------------------------------------
(* Complex numbers with integer parts, <<re, im>>, and arrays of them: the  *)
(* matrices the Hamiltonian and the Dissipator hold.                        *)

CZero == <<0, 0>>

\* x + y
CAdd(x, y) == <<x[1] + y[1], x[2] + y[2]>>

\* x - y
CSub(x, y) == <<x[1] - y[1], x[2] - y[2]>>

\* x * y
CMul(x, y) == <<x[1] * y[1] - x[2] * y[2], x[1] * y[2] + x[2] * y[1]>>

\* x.conj()
CConj(x) == <<x[1], -x[2]>>

\* 1j ** n
IPow(n) ==
    IF n % 4 = 0 THEN <<1, 0>>
    ELSE IF n % 4 = 1 THEN <<0, 1>>
    ELSE IF n % 4 = 2 THEN <<-1, 0>>
    ELSE <<0, -1>>

\* An array: its dtype, its number of axes, and its entries as rows of
\* columns (a vector is one row, a Python number one entry).
Array(dtype, nd, a) == [dtype |-> dtype, nd |-> nd, a |-> a]

Rows(x) == Size(x.a)

Cols(x) == Size(x.a[0])

\* x.shape
Shape(x) == IF x.nd = 2 THEN <<Rows(x), Cols(x)>> ELSE IF x.nd = 1 THEN <<Cols(x)>> ELSE << >>

\* Whether numpy can broadcast the shapes of x and y together.
Broadcastable(x, y) ==
    /\ Rows(x) = Rows(y) \/ Rows(x) = 1 \/ Rows(y) = 1
    /\ Cols(x) = Cols(y) \/ Cols(x) = 1 \/ Cols(y) = 1

Max(i, j) == IF i >= j THEN i ELSE j

\* x + y, elementwise with broadcasting.
BroadcastAdd(x, y) ==
    Array(IF "complex128" \in {x.dtype, y.dtype} THEN "complex128" ELSE "float64",
          Max(x.nd, y.nd),
          [r \in 0..(Max(Rows(x), Rows(y)) - 1) |->
              [c \in 0..(Max(Cols(x), Cols(y)) - 1) |->
                  CAdd(x.a[IF Rows(x) = 1 THEN 0 ELSE r][IF Cols(x) = 1 THEN 0 ELSE c],
                       y.a[IF Rows(y) = 1 THEN 0 ELSE r][IF Cols(y) = 1 THEN 0 ELSE c])]])

\* M.conj()
conjC(M) == [r \in DOMAIN M |-> [c \in DOMAIN M[r] |-> CConj(M[r][c])]]

RECURSIVE DotEntryC(_, _, _, _, _)
DotEntryC(A, B, r, c, k) ==
    IF k < 0 THEN CZero ELSE CAdd(CMul(A[r][k], B[k][c]), DotEntryC(A, B, r, c, k - 1))

\* np.dot(A, B) of two square complex matrices of the same dimension.
dotC(A, B) ==
    [r \in DOMAIN A |-> [c \in DOMAIN A |-> DotEntryC(A, B, r, c, Size(A) - 1)]]

\* np.kron(A, B) of two square complex matrices.
kronC(A, B) ==
    LET n == Size(A)
        m == Size(B)
    IN  [r \in 0..(n * m - 1) |->
            [c \in 0..(n * m - 1) |-> CMul(A[r \div m][c \div m], B[r % m][c % m])]]

\* A - B
subC(A, B) == [r \in DOMAIN A |-> [c \in DOMAIN A |-> CSub(A[r][c], B[r][c])]]

\* np.eye(n) as a complex matrix.
eyeC(n) == [r \in 0..(n - 1) |-> [c \in 0..(n - 1) |-> IF r = c THEN <<1, 0>> ELSE CZero]]

\* Whether M is square, diagonal, with integers on its diagonal.
IsIntDiagonal(M) ==
    \A r \in DOMAIN M :
        /\ DOMAIN M[r] = DOMAIN M
        /\ \A c \in DOMAIN M : M[r][c][2] = 0 /\ (r # c => M[r][c][1] = 0)

\* scipy.linalg.expm((1j*2*pi*time)*M) for a matrix M as above and
\* time = quarters/4: the diagonal matrix of exp(1j*2*pi*quarters*M[k][k]/4).
expm(quarters, M) ==
    [r \in DOMAIN M |-> [c \in DOMAIN M |-> IF r = c THEN IPow(quarters * M[r][r][1]) ELSE CZero]]

-----------------------------------------------------------------------------
(* Hamiltonian and Dissipator.                                             *)

\* interactionMatrix = None
NoAddr == 0

\* np.complex128(matrix): the array itself when it is complex128 already,
\* else a new complex128 array with its values.
complex128(h, addr) ==
    IF h[addr].dtype = "complex128"
    THEN [heap |-> h, addr |-> addr]
    ELSE [heap |-> Append(h, Array("complex128", h[addr].nd, h[addr].a)),
          addr |-> Len(h) + 1]

\* Hamiltonian.__init__(matrix): the heap and the object; src remembers the
\* array passed.
HamiltonianInit(h, src) ==
    [heap |-> complex128(h, src).heap,
     obj |-> [matrix |-> complex128(h, src).addr, interactionMatrix |-> NoAddr,
              dim |-> Shape(h[src])[1], src |-> src]]

\* Dissipator.__init__(mat)
DissipatorInit(h, src) == [matrix |-> src, dim |-> Shape(h[src])[1], src |-> src]

\* The exception self.matrix + other raises, None when it raises none.
AddErr(x, y) == IF Broadcastable(x, y) THEN None ELSE "ValueError"

\* Hamiltonian.__add__: Hamiltonian(self.matrix + other), the sum a new array.
HamiltonianAdd(h, self, y) ==
    HamiltonianInit(Append(h, BroadcastAdd(h[self.matrix], y)), Len(h) + 1)

\* The exception self.matrix += other raises, None when it raises none.
IAddErr(x, y) ==
    IF Broadcastable(x, y) /\ Shape(BroadcastAdd(x, y)) = Shape(x) THEN None ELSE "ValueError"

\* Hamiltonian.__iadd__ that also drops the interaction-frame matrix.
HamiltonianIAdd_Reset(h, self, y) ==
    [heap |-> [h EXCEPT ![self.matrix].a = BroadcastAdd(h[self.matrix], y).a],
     obj |-> [self EXCEPT !.interactionMatrix = NoAddr]]

\* Hamiltonian.__iadd__: the sum written into self.matrix.
HamiltonianIAdd(h, self, y) ==
    [heap |-> [h EXCEPT ![self.matrix].a = BroadcastAdd(h[self.matrix], y).a],
     obj |-> self]

\* The exception calc_interaction_frame raises, None when it raises none.
CalcErr(h, self, interactionHam) ==
    IF Shape(h[self.matrix]) # Shape(h[interactionHam.matrix]) THEN "ValueError" ELSE None

\* Hamiltonian.calc_interaction_frame(interactionHam, time), time = quarters/4.
calc_interaction_frame(h, self, interactionHam, quarters) ==
    LET transformMat == expm(quarters, h[interactionHam.matrix].a)
        new == subC(dotC(dotC(transformMat, h[self.matrix].a), transpose(conjC(transformMat))),
                    h[interactionHam.matrix].a)
    IN  [heap |-> Append(h, Array("complex128", 2, new)),
         obj |-> [self EXCEPT !.interactionMatrix = Len(h) + 1]]

\* The exception superOpColStack raises, None when it raises none.
SuperOpErr(self, interactionMatrix) ==
    IF interactionMatrix /\ self.interactionMatrix = NoAddr THEN "AttributeError" ELSE None

\* Hamiltonian.superOpColStack(interactionMatrix)
superOpColStack(h, self, interactionMatrix) ==
    LET tmpEye == eyeC(self.dim)
        mat == IF interactionMatrix THEN h[self.interactionMatrix].a ELSE h[self.matrix].a
    IN  subC(kronC(conjC(mat), tmpEye), kronC(tmpEye, mat))

(* The script: its arrays, and what it passes.                              *)

\* The arrays the script builds and passes to the constructors.
SourceArrays ==
    { Array("float64", 2, Arr(<<Arr(<<<<1, 0>>, <<2, 0>>>>), Arr(<<<<3, 0>>, <<4, 0>>>>)>>)),
      Array("complex128", 2, Arr(<<Arr(<<<<0, 0>>, <<0, 0>>>>), Arr(<<<<0, 0>>, <<1, 0>>>>)>>)),
      Array("complex128", 2, Arr(<<Arr(<<<<1, 0>>, <<0, 1>>>>), Arr(<<<<0, -1>>, <<2, 0>>>>)>>)),
      Array("complex128", 2,
            Arr(<<Arr(<<<<0, 0>>, <<0, 0>>, <<0, 0>>>>),
                  Arr(<<<<0, 0>>, <<1, 0>>, <<0, 0>>>>),
                  Arr(<<<<0, 0>>, <<0, 0>>, <<2, 0>>>>)>>)) }

\* The operands the script adds that are no arrays of its own: a number, a
\* 1x1 matrix, a vector.
Immediates ==
    { Array("float64", 0, Arr(<<Arr(<<<<5, 0>>>>)>>)),
      Array("float64", 2, Arr(<<Arr(<<<<3, 0>>>>)>>)),
      Array("float64", 1, Arr(<<Arr(<<<<1, 0>>, <<2, 0>>>>)>>)) }

\* The addresses of the arrays the script built itself.
UserArrays == {1, 2}

\* The names the script binds Hamiltonians to; Sum is bound to the result of
\* the last +.
HamNames == {"H1", "H2"}

\* The times the script passes to calc_interaction_frame, in quarters.
Quarters == {1, 2}

\* The operands of + and +=: a Hamiltonian, an array of the script, an immediate.
Operands ==
    [kind : {"Hamiltonian"}, name : HamNames]
        \cup [kind : {"array"}, addr : UserArrays]
        \cup [kind : {"immediate"}, value : Immediates]

\* The array an operand stands for: other.matrix, or other itself.
OperandArray(h, o) ==
    IF o.kind = "Hamiltonian" THEN h[hams[o.name][1].matrix]
    ELSE IF o.kind = "array" THEN h[o.addr]
    ELSE o.value

\* No array and no object exists.
ObjNone ==
    /\ heap = << >> /\ hams = << >> /\ diss = << >>
    /\ objOp = << >> /\ objRet = NoArray /\ nops = 0

\* The script has built two arrays and constructed H1 from the first, H2 and
\* the Dissipator from the second.
ObjInit ==
    /\ \E a1 \in SourceArrays, a2 \in SourceArrays :
        LET i1 == HamiltonianInit(<<a1, a2>>, 1)
            i2 == HamiltonianInit(i1.heap, 2)
        IN  /\ heap = i2.heap
            /\ hams = [n \in HamNames \cup {"Sum"} |->
                          IF n = "H1" THEN <<i1.obj>>
                          ELSE IF n = "H2" THEN <<i2.obj>> ELSE << >>]
            /\ diss = <<DissipatorInit(i2.heap, 2)>>
    /\ objOp = << >> /\ objRet = NoArray /\ nops = 0

\* What every operation does to the history.
Record(name, recv, other, raised) ==
    /\ objOp' = <<[name |-> name, recv |-> recv, other |-> other, raised |-> raised]>>
    /\ nops' = nops + 1

\* H = Hamiltonian(array)
NewHamiltonian ==
    /\ nops < MaxOps
    /\ \E n \in HamNames, src \in UserArrays :
        /\ heap' = HamiltonianInit(heap, src).heap
        /\ hams' = [hams EXCEPT ![n] = <<HamiltonianInit(heap, src).obj>>]
        /\ Record("Hamiltonian", n, [kind |-> "array", addr |-> src], None)
    /\ UNCHANGED <<diss, objRet>>
    /\ UNCHANGED <<expVars, sysVars>>

\* D = Dissipator(array)
NewDissipator ==
    /\ nops < MaxOps
    /\ \E src \in UserArrays :
        /\ diss' = <<DissipatorInit(heap, src)>>
        /\ Record("Dissipator", "D", [kind |-> "array", addr |-> src], None)
    /\ UNCHANGED <<heap, hams, objRet>>
    /\ UNCHANGED <<expVars, sysVars>>

\* Sum = H + other
Add ==
    /\ nops < MaxOps
    /\ \E n \in HamNames, o \in Operands :
        LET self == hams[n][1]
            y == OperandArray(heap, o)
        IN  IF AddErr(heap[self.matrix], y) # None
            THEN /\ Record("add", n, o, AddErr(heap[self.matrix], y))
                 /\ UNCHANGED <<heap, hams>>
            ELSE /\ heap' = HamiltonianAdd(heap, self, y).heap
                 /\ hams' = [hams EXCEPT !["Sum"] = <<HamiltonianAdd(heap, self, y).obj>>]
                 /\ Record("add", n, o, None)
    /\ UNCHANGED <<diss, objRet>>
    /\ UNCHANGED <<expVars, sysVars>>

\* H += other
IAdd ==
    /\ nops < MaxOps
    /\ \E n \in HamNames, o \in Operands :
        LET self == hams[n][1]
            y == OperandArray(heap, o)
        IN  IF IAddErr(heap[self.matrix], y) # None
            THEN /\ Record("iadd", n, o, IAddErr(heap[self.matrix], y))
                 /\ UNCHANGED <<heap, hams>>
            ELSE /\ heap' = HamiltonianIAdd(heap, self, y).heap
                 /\ hams' = [hams EXCEPT ![n] = <<HamiltonianIAdd(heap, self, y).obj>>]
                 /\ Record("iadd", n, o, None)
    /\ UNCHANGED <<diss, objRet>>
    /\ UNCHANGED <<expVars, sysVars>>

\* H.calc_interaction_frame(Hint, time), for the interaction Hamiltonians
\* whose exponential the model computes: diagonal, with integer entries.
CalcInteractionFrame ==
    /\ nops < MaxOps
    /\ \E n \in HamNames, m \in HamNames, q \in Quarters :
        LET self == hams[n][1]
            interactionHam == hams[m][1]
        IN  /\ IsIntDiagonal(heap[interactionHam.matrix].a)
            /\ IF CalcErr(heap, self, interactionHam) # None
               THEN /\ Record("calc_interaction_frame", n,
                              [kind |-> "Hamiltonian", name |-> m],
                              CalcErr(heap, self, interactionHam))
                    /\ UNCHANGED <<heap, hams>>
               ELSE /\ heap' = calc_interaction_frame(heap, self, interactionHam, q).heap
                    /\ hams' = [hams EXCEPT ![n] =
                                   <<calc_interaction_frame(heap, self, interactionHam, q).obj>>]
                    /\ Record("calc_interaction_frame", n,
                              [kind |-> "Hamiltonian", name |-> m], None)
    /\ UNCHANGED <<diss, objRet>>
    /\ UNCHANGED <<expVars, sysVars>>

\* H.superOpColStack(interactionMatrix)
SuperOpColStack ==
    /\ nops < MaxOps
    /\ \E n \in HamNames, flag \in BOOLEAN :
        LET self == hams[n][1]
        IN  IF SuperOpErr(self, flag) # None
            THEN /\ Record("superOpColStack", n, [kind |-> "flag", value |-> flag], SuperOpErr(self, flag))
                 /\ objRet' = NoArray
            ELSE /\ Record("superOpColStack", n, [kind |-> "flag", value |-> flag], None)
                 /\ objRet' = superOpColStack(heap, self, flag)
    /\ UNCHANGED <<heap, hams, diss>>
    /\ UNCHANGED <<expVars, sysVars>>

\* array[0, 0] = 7, on an array the script built
Mutate ==
    /\ nops < MaxOps
    /\ \E addr \in UserArrays :
        /\ heap' = [heap EXCEPT ![addr].a[0][0] = <<7, 0>>]
        /\ Record("mutate", "array", [kind |-> "array", addr |-> addr], None)
    /\ UNCHANGED <<hams, diss, objRet>>
    /\ UNCHANGED <<expVars, sysVars>>

-----------------------------------------------------------------------------
(* The specifications: one per component, the other components at rest.   *)

ExpNext == Call \/ SwapStep \/ NextPosition \/ Return

ExpandInit == ExpInit /\ SysNone /\ ObjNone

\* Calls of expand_hilbert_space whose index lists split 0..N-1.
SpecExpand == ExpandInit /\ [][ExpNext]_vars

ExpAnyNext == CallAny \/ SwapStep \/ NextPosition \/ Return

\* Calls of expand_hilbert_space with any index lists.
SpecExpandAny == ExpandInit /\ [][ExpAnyNext]_vars

SysNext == NewInteraction \/ AssignStrength \/ CreateMat \/ ReadMatrix \/ GetOperator

SystemsInit == ExpInit /\ SysInit /\ ObjNone

\* Two qubits and the interaction between them.
SpecSys == SystemsInit /\ [][SysNext]_vars

ObjNext ==
    NewHamiltonian \/ NewDissipator \/ Add \/ IAdd \/ CalcInteractionFrame
        \/ SuperOpColStack \/ Mutate

ObjectsInit == ExpInit /\ SysNone /\ ObjInit

\* Two Hamiltonians, a Dissipator and the arrays they were constructed from.
SpecObj == ObjectsInit /\ [][ObjNext]_vars

-----------------------------------------------------------------------------
(* The claims about the expansion engine.                                  *)

\* The product of the dimensions of the subsystems after subsystem k.
RECURSIVE Stride(_, _)
Stride(dims, k) == IF k >= Size(dims) - 1 THEN 1 ELSE dims[k + 1] * Stride(dims, k + 1)

\* The component for subsystem k of the canonical full-space index r.
Digit(r, k, dims) == (r \div Stride(dims, k)) % dims[k]

\* The index, in the operator's own basis, of the acting components of r: the
\* acting subsystems from position p on, in the order the caller gave them.
RECURSIVE ActingIndex(_, _, _, _)
ActingIndex(r, opSS, dims, p) ==
    IF p < 0 THEN 0
    ELSE Digit(r, opSS[p], dims)
           * prod([q \in 0..(Size(opSS) - p - 2) |-> dims[opSS[p + 1 + q]]])
         + ActingIndex(r, opSS, dims, p - 1)

\* The operator in the canonical full-space basis.
Canonical(op, opSS, eyeSS, dims) ==
    LET D == prod(dims)
        last == Size(opSS) - 1
    IN  [r \in 0..(D - 1) |->
            [c \in 0..(D - 1) |->
                IF \A i \in DOMAIN eyeSS : Digit(r, eyeSS[i], dims) = Digit(c, eyeSS[i], dims)
                THEN op[ActingIndex(r, opSS, dims, last)][ActingIndex(c, opSS, dims, last)]
                ELSE 0]]

\* C1: for every dimension vector and every split of 0..N-1 into acting
\* indices (in any order) and passive indices, the call returns the operator
\* in the canonical full-space basis.
C1_CanonicalBasis ==
    (pc \in {"done", "raised"}
       /\ IsPartition(operatorSubSystems, eyeSubSystems, Size(dimensions)))
    => /\ pc = "done"
       /\ result = Canonical(operator, operatorSubSystems, eyeSubSystems, dimensions)

\* C2: with A on subsystem i and B on subsystem j, i < j, expanding A (x) B
\* for [i, j] gives the same matrix as expanding B (x) A for [j, i].
C2_OrderIndependence ==
    (pc \in {"done", "raised"} /\ opKind = "kron"
       /\ operatorSubSystems[0] < operatorSubSystems[1])
    => LET i == operatorSubSystems[0]
           j == operatorSubSystems[1]
           other == expand_hilbert_space(
                        kron(LocalOp(dimensions[j], "B"), LocalOp(dimensions[i], "A")),
                        Arr(<<j, i>>), eyeSubSystems, dimensions)
       IN  /\ pc = "done"
           /\ other.err = None
           /\ other.matrix = result

\* C3: when acting and passive indices together do not hold each of 0..N-1
\* exactly once, the call fails with an error and returns no matrix.
C3_MalformedPartitionFails ==
    (pc # "idle" /\ ~ IsPartition(operatorSubSystems, eyeSubSystems, Size(dimensions)))
    => pc # "done" /\ result = NoArray

\* Exactly one 1 in each row and each column, 0 elsewhere.
IsPermutation(P) ==
    /\ \A r \in DOMAIN P : \A c \in DOMAIN P : P[r][c] \in {0, 1}
    /\ \A r \in DOMAIN P : Cardinality({c \in DOMAIN P : P[r][c] = 1}) = 1
    /\ \A c \in DOMAIN P : Cardinality({r \in DOMAIN P : P[r][c] = 1}) = 1

\* P . P^t = I
IsOrthogonal(P) == dot(P, transpose(P)) = eye(Size(P))

\* C7: every permutation matrix the engine constructs (the bipartite swap
\* matrix, the swap matrix padded with identities, the accumulated total) has
\* exactly one 1 in each row and column, and P . P^t = I.
C7_PermutationOrthogonality ==
    /\ totP # NoArray => IsPermutation(totP) /\ IsOrthogonal(totP)
    /\ swap # << >> =>
          /\ IsPermutation(swap[1].tmpP) /\ IsOrthogonal(swap[1].tmpP)
          /\ IsPermutation(swap[1].padded) /\ IsOrthogonal(swap[1].padded)

\* C7's case: subsystems of different dimensions, and a second swap, padded
\* with an identity, has been multiplied into the total.
C7_Witness ==
    /\ swap # << >>
    /\ \E i, j \in DOMAIN dimensions : dimensions[i] # dimensions[j]
    /\ swap[1].padded # swap[1].tmpP
    /\ totP # swap[1].padded
    /\ totP # eye(Size(totP))

\* C9: at every swap step the swap matrix is built from the dimensions of the
\* two subsystems that occupy the two positions being swapped, so that
\* preDim . dim1 . dim2 . postDim is the full-space dimension and the padded
\* matrix can be multiplied into the total permutation.
C9_SwapDimensions ==
    /\ swap # << >> =>
          LET s == swap[1]
          IN  /\ \/ s.dim1 = dimensions[s.right] /\ s.dim2 = dimensions[s.left]
                 \/ s.dim1 = dimensions[s.left] /\ s.dim2 = dimensions[s.right]
              /\ s.preDim * s.dim1 * s.dim2 * s.postDim = prod(dimensions)
    /\ err # "ValueError"

-----------------------------------------------------------------------------
(* The claims about the subsystems and their interaction.                  *)

\* The entry of the matrix an interaction type prescribes for a strength and
\* two subsystems of d1 and d2 levels, between the levels (a, b) and (a2, b2).
PrescribedEntry(type, strength, a, b, a2, b2) ==
    IF type = "ZZ"
    THEN IF a = a2 /\ b = b2 /\ a <= 1 /\ b <= 1
         THEN SInt(Quarter(strength) * (IF a = b THEN 1 ELSE -1))
         ELSE SZero
    ELSE IF a2 = a + 1 /\ b = b2 + 1 THEN SMul(SInt(strength), Sqrt(a2 * b))
    ELSE IF a = a2 + 1 /\ b2 = b + 1 THEN SMul(SInt(strength), Sqrt(a * b2))
    ELSE SZero

\* The matrix an interaction type prescribes.
Prescribed(type, strength, d1, d2) ==
    [r \in 0..(d1 * d2 - 1) |->
        [c \in 0..(d1 * d2 - 1) |->
            PrescribedEntry(type, strength, r \div d2, r % d2, c \div d2, c % d2)]]

\* C4: the matrix of an Interaction is the one its type prescribes for the
\* strength createMat last read, whatever was assigned or read since; when
\* createMat (or the constructor, which calls it) has just returned, that is
\* the current strength.
C4_MatrixFollowsCreateMat ==
    inter # << >> =>
        LET obj == inter[1]
        IN  /\ obj.matrix = Prescribed(obj.interactionType, builtStrength,
                                       Sys(obj.system1).dim, Sys(obj.system2).dim)
            /\ sysOp \in {"createMat", "Interaction"} /\ sysErr = None
                  => builtStrength = obj.interactionStrength
            /\ sysOp = "readMatrix" => sysRet[1].value = obj.matrix

\* C4's case: the strength was assigned a new value, and the matrix, read
\* twice since, is still the one of the old strength and not the one of the
\* new strength.
C4_Witness ==
    /\ inter # << >>
    /\ sysOp = "readMatrix"
    /\ reads >= 2
    /\ builtStrength # inter[1].interactionStrength
    /\ inter[1].interactionType = "FlipFlop"
    /\ inter[1].matrix # Prescribed("FlipFlop", inter[1].interactionStrength, Q1.dim, Q2.dim)

\* Whether M is the d x d matrix whose only nonzero entries are sqrt(k),
\* k = 1..d-1, at (k, k-1) (below = TRUE) or at (k-1, k) (below = FALSE).
IsLadder(M, d, below) ==
    /\ DOMAIN M = 0..(d - 1)
    /\ \A r \in 0..(d - 1) :
          /\ DOMAIN M[r] = 0..(d - 1)
          /\ \A c \in 0..(d - 1) :
                IF below /\ r = c + 1 THEN SMul(M[r][c], M[r][c]) = SInt(r) /\ M[r][c] = Sqrt(r)
                ELSE IF ~ below /\ c = r + 1
                THEN SMul(M[r][c], M[r][c]) = SInt(c) /\ M[r][c] = Sqrt(c)
                ELSE M[r][c] = SZero

\* The accessor just read returned M for a qubit of d levels.
JustRead(name) ==
    sysOp = "getOperator" /\ sysErr = None /\ sysRet # << >> /\ sysRet[1].name = name

\* C8 as stated: the lowering operator has sqrt(k) at (k, k-1), on the
\* sub-diagonal, and the raising operator has it at (k-1, k), on the
\* super-diagonal.
C8_LadderAsStated ==
    /\ JustRead("loweringOp") => IsLadder(sysRet[1].value, Sys(sysRet[1].system).dim, TRUE)
    /\ JustRead("raisingOp") => IsLadder(sysRet[1].value, Sys(sysRet[1].system).dim, FALSE)

\* C8 as amended: the lowering operator has sqrt(k) at (k-1, k), on the
\* super-diagonal, and the raising operator has it at (k, k-1), on the
\* sub-diagonal.
C8_LadderDiagonals ==
    /\ JustRead("loweringOp") => IsLadder(sysRet[1].value, Sys(sysRet[1].system).dim, FALSE)
    /\ JustRead("raisingOp") => IsLadder(sysRet[1].value, Sys(sysRet[1].system).dim, TRUE)

\* C8's case: the lowering operator of a qubit of three or more levels.
C8_Witness ==
    /\ JustRead("loweringOp")
    /\ Sys(sysRet[1].system).dim >= 3
    /\ sysRet[1].value[1][2] = Sqrt(2)

-----------------------------------------------------------------------------
(* The claims about the Hamiltonian and the Dissipator.                     *)

\* The last operation, once there was one.
LastOp == objOp[1]

\* The Hamiltonian bound to a name.
Ham(n) == hams[n][1]

\* C5: + and += fail whenever the operand's shape differs from the shape of
\* the receiver's matrix; nothing of another shape is broadcast.
C5_ShapeMismatchFails ==
    (objOp # << >> /\ LastOp.name \in {"add", "iadd"})
        => (Shape(OperandArray(heap, LastOp.other)) # Shape(heap[Ham(LastOp.recv).matrix])
                => LastOp.raised # None)

\* C6: no instance shares its matrix with the array it was constructed from:
\* writing into that array changes the matrix of no Hamiltonian and of no
\* Dissipator, and += changes neither the array the receiver was constructed
\* from nor the operand.
C6_NoAliasing ==
    [][ /\ objOp'[1].name = "mutate" =>
            /\ \A n \in DOMAIN hams :
                hams[n] # << >> => heap'[Ham(n).matrix] = heap[Ham(n).matrix]
            /\ heap'[diss[1].matrix] = heap[diss[1].matrix]
        /\ objOp'[1].name = "iadd" =>
            /\ heap'[Ham(objOp'[1].recv).src] = heap[Ham(objOp'[1].recv).src]
            /\ objOp'[1].other.kind = "array" =>
                    heap'[objOp'[1].other.addr] = heap[objOp'[1].other.addr]
            /\ (objOp'[1].other.kind = "Hamiltonian" /\ objOp'[1].other.name # objOp'[1].recv) =>
                    heap'[Ham(objOp'[1].other.name).matrix]
                        = heap[Ham(objOp'[1].other.name).matrix]
      ]_vars

\* The interaction-frame matrix of the Hamiltonian bound to n, None when absent.
InteractionMatrixOf(h, hs, n) ==
    IF hs[n][1].interactionMatrix = NoAddr THEN NoArray ELSE h[hs[n][1].interactionMatrix].a

\* C10: the interaction-frame matrix is absent after construction; only
\* calc_interaction_frame on an instance sets it; +, += and superOpColStack
\* leave it as it is, in reference and in content; calc_interaction_frame
\* leaves every lab-frame matrix, every dim, every other instance and every
\* array that existed as they were.
C10_FrameOnlyByTransformation ==
    /\ (nops = 0 => \A n \in HamNames : Ham(n).interactionMatrix = NoAddr)
    /\ [][ /\ objOp'[1].name = "Hamiltonian" =>
                hams'[objOp'[1].recv][1].interactionMatrix = NoAddr
           /\ (objOp'[1].name = "add" /\ objOp'[1].raised = None) =>
                hams'["Sum"][1].interactionMatrix = NoAddr
           /\ objOp'[1].name \in {"add", "iadd", "superOpColStack"} =>
                \A n \in HamNames :
                    /\ hams'[n][1].interactionMatrix = Ham(n).interactionMatrix
                    /\ InteractionMatrixOf(heap', hams', n) = InteractionMatrixOf(heap, hams, n)
           /\ objOp'[1].name # "calc_interaction_frame" =>
                \A n \in HamNames :
                    (Ham(n).interactionMatrix = NoAddr /\ hams'[n][1].interactionMatrix # NoAddr)
                        => FALSE
           /\ objOp'[1].name = "calc_interaction_frame" =>
                /\ \A n \in DOMAIN hams :
                    hams[n] # << >> =>
                        /\ hams'[n][1].matrix = Ham(n).matrix
                        /\ hams'[n][1].dim = Ham(n).dim
                        /\ n # objOp'[1].recv => hams'[n] = hams[n]
                /\ \A a \in 1..Len(heap) : heap'[a] = heap[a]
                /\ diss' = diss
                /\ IF objOp'[1].raised = None
                   THEN hams'[objOp'[1].recv][1].interactionMatrix = Len(heap) + 1
                   ELSE hams' = hams /\ heap' = heap
         ]_vars

\* += succeeded on a Hamiltonian that has an interaction-frame matrix.
C10_Witness ==
    /\ objOp # << >>
    /\ LastOp.name = "iadd"
    /\ LastOp.raised = None
    /\ Ham(LastOp.recv).interactionMatrix # NoAddr
    /\ heap[Ham(LastOp.recv).interactionMatrix].a # heap[Ham(LastOp.recv).matrix].a

-----------------------------------------------------------------------------
(* The claim about the swap loop.                                           *)

\* Every swap performed exchanged two adjacent positions and moved the
\* smaller index to the left one.
SwapsAdjacentSmallerLeft ==
    swap # << >> =>
        /\ swap[1].curInd >= 1
        /\ swap[1].right < swap[1].left

\* After the iterations for the positions below ct, those positions hold
\* their own indices.
PrefixSorted ==
    pc \in {"loop", "done"} =>
        \A i \in 0..(ct - 1) : i < Size(curIndices) => curIndices[i] = i

\* At the exit of the loop the tracked ordering is 0, 1, ..., N-1.
SortedOnExit ==
    pc = "done" => curIndices = [i \in 0..(Size(dimensions) - 1) |-> i]

\* C11: for every ordering of 0..N-1 the swap loop runs to its exit, raising
\* nothing on the way; every swap exchanges two adjacent positions and moves
\* the smaller index left; after the iteration for position ct the positions
\* 0..ct hold the indices 0..ct; at the exit the ordering is 0, 1, ..., N-1.
C11_SwapLoopSorts ==
    /\ pc # "raised"
    /\ SwapsAdjacentSmallerLeft
    /\ PrefixSorted
    /\ SortedOnExit

=============================================================================
